---------------------------- MODULE Spec2Model ----------------------------
(***************************************************************************)
(* A model of kmeanseval.evaluator.KMeansEvaluator: the constructor that   *)
(* fits one KMeans model per element of k_range and caches it in _models,  *)
(* get_metrics, and the three plot methods, together with the part of the  *)
(* pyplot state (open figures, show calls) and of the clustering library   *)
(* (fit, silhouette_score, silhouette_samples) that these methods drive.   *)
(*                                                                         *)
(* The library calls are opaque to the repository.  They are modelled as   *)
(* deterministic integer-valued functions of their arguments; KMeans is    *)
(* deterministic only when a random_state is passed, otherwise its result  *)
(* is the result for some state of the global random generator.            *)
(***************************************************************************)
EXTENDS Integers, Sequences, FiniteSets, TLC

(* Bounds of the model. *)
MaxLen == 2      \* longest k_range
MaxK == 3        \* largest candidate k
MaxSeed == 2     \* random_state values, and states of the global generator
MaxCalls == 2    \* calls made after the constructor

(* Program constants. *)
MinK == 2            \* k_range = range(2, 11): the smallest default candidate
FirstBand == 10      \* y_lower = 10
BandGap == 10        \* y_lower = y_upper + 10
YLimPad == 10        \* len(data) + (k_clusters + 1) * 10

KValues == MinK..MaxK
KRanges == UNION {[1..n -> KValues] : n \in 0..MaxLen}
Datasets == {<<1, 2, 4>>, <<0, 3, 3>>}
NoKwargs == <<>>
Kwargs == {NoKwargs} \cup {<<s>> : s \in 1..MaxSeed}
Metrics == {"wss", "silhouette_score", "silhouette_sample", "bogus"}
ValidMetrics == {"wss", "silhouette_score", "silhouette_sample"}

VARIABLES
    data,           \* self._data
    k_range,        \* self._k_range
    kwargs,         \* the constructor's **kwargs
    constructed,    \* __init__ has returned
    models,         \* self._models: k -> fitted model
    fits,           \* number of KMeans.fit_predict calls so far
    figs,           \* pyplot's open figures; a figure's number is its position
    calls,          \* number of method calls made on the evaluator
    returned,       \* metric -> the lists get_metrics has returned for it, in order
    last,           \* what the most recent call did
    reference       \* the wss list of the test's reference loop, once it has run

vars == <<data, k_range, kwargs, constructed, models, fits, figs, calls,
          returned, last, reference>>

---------------------------------------------------------------------------
(* Helpers. *)

Abs(x) == IF x < 0 THEN -x ELSE x

Range(s) == {s[i] : i \in DOMAIN s}

Min(S) == CHOOSE x \in S : \A y \in S : x <= y

RECURSIVE SumFn(_, _)
SumFn(f, S) ==
    IF S = {} THEN 0
    ELSE LET x == CHOOSE y \in S : TRUE IN f[x] + SumFn(f, S \ {x})

---------------------------------------------------------------------------
(* The clustering library. *)

(* KMeans labels for a given generator state r. *)
KMeansLabels(k, r, d) == [i \in 1..Len(d) |-> (d[i] * r + i) % k]

(* inertia_: decided by the data and the labels. *)
Inertia(d, labels) ==
    LET P == {p \in (1..Len(d)) \X (1..Len(d)) :
                 p[1] < p[2] /\ labels[p[1]] = labels[p[2]]}
    IN  SumFn([p \in P |-> (d[p[1]] - d[p[2]]) * (d[p[1]] - d[p[2]])], P)

(* A fitted model: its parameters and its labels_ and inertia_ attributes. *)
ModelWith(k, kw, d, labels) ==
    [n_clusters |-> k, kwargs |-> kw, fit_data |-> d,
     labels_ |-> labels, inertia_ |-> Inertia(d, labels)]

(* The model KMeans(n_clusters=k, **kw).fit_predict(d) leaves behind when
   the generator is in state r. *)
FittedModel(k, kw, d, r) == ModelWith(k, kw, d, KMeansLabels(k, r, d))

(* The generator states a fit may run from: the given random_state, or any. *)
RngStates(kw) == IF kw = NoKwargs THEN 1..MaxSeed ELSE {kw[1]}

silhouette_samples(d, labels) ==
    [i \in 1..Len(d) |->
        SumFn([j \in 1..Len(d) |->
                  IF labels[j] = labels[i] THEN -Abs(d[i] - d[j])
                  ELSE Abs(d[i] - d[j])], 1..Len(d))]

silhouette_score(d, labels) ==
    LET s == silhouette_samples(d, labels) IN SumFn(s, 1..Len(d))

---------------------------------------------------------------------------
(* _fit_models: models.update({k: model}) for each k of k_range, in order.
   rs[i] is the generator state of the i-th fit. *)

DictUpdate(ms, k, m) == [x \in (DOMAIN ms) \cup {k} |-> IF x = k THEN m ELSE ms[x]]

(* Variant: the cache is keyed by the position in k_range, not by k. *)
RECURSIVE fit_models_loop_by_index(_, _, _, _, _, _)
fit_models_loop_by_index(kr, kw, d, rs, i, ms) ==
    IF i > Len(kr) THEN ms
    ELSE fit_models_loop_by_index(kr, kw, d, rs, i + 1,
            DictUpdate(ms, i, FittedModel(kr[i], kw, d, rs[i])))

(* Variant: the loop stops one element short of the end of k_range. *)
RECURSIVE fit_models_loop_skip_last(_, _, _, _, _, _)
fit_models_loop_skip_last(kr, kw, d, rs, i, ms) ==
    IF i >= Len(kr) THEN ms
    ELSE fit_models_loop_skip_last(kr, kw, d, rs, i + 1,
            DictUpdate(ms, kr[i], FittedModel(kr[i], kw, d, rs[i])))

RECURSIVE fit_models_loop(_, _, _, _, _, _)
fit_models_loop(kr, kw, d, rs, i, ms) ==
    IF i > Len(kr) THEN ms
    ELSE fit_models_loop(kr, kw, d, rs, i + 1,
            DictUpdate(ms, kr[i], FittedModel(kr[i], kw, d, rs[i])))

fit_models(kr, kw, d, rs) == fit_models_loop(kr, kw, d, rs, 1, <<>>)

---------------------------------------------------------------------------
(* get_metrics. *)

(* Variant: every score is read from the model of the first candidate. *)
Score_wrong_model(metric, kr, i, ms, d) ==
    LET m == ms[kr[1]]
    IN  IF metric = "wss" THEN m.inertia_
        ELSE IF metric = "silhouette_score" THEN silhouette_score(d, m.labels_)
        ELSE IF metric = "silhouette_sample" THEN silhouette_samples(d, m.labels_)
        ELSE m.inertia_

(* The score of the i-th candidate: the if/elif chain of the loop body. *)
Score(metric, kr, i, ms, d) ==
    LET m == ms[kr[i]]
    IN  IF metric = "wss" THEN m.inertia_
        ELSE IF metric = "silhouette_score" THEN silhouette_score(d, m.labels_)
        ELSE IF metric = "silhouette_sample" THEN silhouette_samples(d, m.labels_)
        ELSE m.inertia_

(* Variant: the silhouette values are read from a store, never computed. *)
LibraryCalls_cached(metric) == [score |-> 0, sample |-> 0]

(* The library computations one iteration of the loop asks for. *)
LibraryCalls(metric) ==
    [score  |-> IF metric = "silhouette_score" THEN 1 ELSE 0,
     sample |-> IF metric = "silhouette_sample" THEN 1 ELSE 0]

(* Whether iteration i prints the notice. *)
PrintsNotice(metric, kr, i) ==
    metric \notin ValidMetrics /\ kr[i] = Min(Range(kr))

GetMetricsStart == [ret |-> <<>>, err |-> "none", printed |-> 0,
                    score_calls |-> 0, sample_calls |-> 0]

(* Variant: each score is put at the front of the list. *)
RECURSIVE get_metrics_loop_prepend(_, _, _, _, _, _)
get_metrics_loop_prepend(metric, kr, ms, d, i, acc) ==
    IF i > Len(kr) THEN acc
    ELSE IF kr[i] \notin DOMAIN ms THEN [acc EXCEPT !.err = "KeyError"]
    ELSE get_metrics_loop_prepend(metric, kr, ms, d, i + 1,
            [ret          |-> <<Score(metric, kr, i, ms, d)>> \o acc.ret,
             err          |-> "none",
             printed      |-> acc.printed + (IF PrintsNotice(metric, kr, i) THEN 1 ELSE 0),
             score_calls  |-> acc.score_calls + LibraryCalls(metric).score,
             sample_calls |-> acc.sample_calls + LibraryCalls(metric).sample])

RECURSIVE get_metrics_loop(_, _, _, _, _, _)
get_metrics_loop(metric, kr, ms, d, i, acc) ==
    IF i > Len(kr) THEN acc
    ELSE IF kr[i] \notin DOMAIN ms THEN [acc EXCEPT !.err = "KeyError"]
    ELSE get_metrics_loop(metric, kr, ms, d, i + 1,
            [ret          |-> Append(acc.ret, Score(metric, kr, i, ms, d)),
             err          |-> "none",
             printed      |-> acc.printed + (IF PrintsNotice(metric, kr, i) THEN 1 ELSE 0),
             score_calls  |-> acc.score_calls + LibraryCalls(metric).score,
             sample_calls |-> acc.sample_calls + LibraryCalls(metric).sample])

get_metrics(metric, kr, ms, d) == get_metrics_loop(metric, kr, ms, d, 1, GetMetricsStart)

---------------------------------------------------------------------------
(* _generic_plot: one new figure, the plot of metric against k_range, the
   labels, the title (which reads k_range[0] and k_range[-1]) and show. *)

NoPlotEffect == [new_figs |-> <<>>, err |-> "none", events |-> <<>>,
                 plotted |-> <<>>, score_calls |-> 0, sample_calls |-> 0]

generic_plot(metric_list, title, kr) ==
    LET fig == [kind |-> "generic", x |-> kr, y |-> metric_list,
                xlabel |-> "k", ylabel |-> title, title |-> <<>>]
    IN  IF Len(kr) = 0
        THEN [NoPlotEffect EXCEPT !.new_figs = <<fig>>, !.err = "IndexError",
                                  !.events = <<"figure", "plot">>,
                                  !.plotted = <<kr, metric_list>>]
        ELSE [NoPlotEffect EXCEPT
                 !.new_figs = <<[fig EXCEPT !.title = <<title, kr[1], kr[Len(kr)]>>]>>,
                 !.events = <<"figure", "plot", "show">>,
                 !.plotted = <<kr, metric_list>>]

(* plot_elbow and plot_avg_silhouette_scores: get_metrics, then _generic_plot. *)
metric_plot(metric, title, kr, ms, d) ==
    LET gm == get_metrics(metric, kr, ms, d)
    IN  IF gm.err # "none"
        THEN [NoPlotEffect EXCEPT !.err = gm.err, !.score_calls = gm.score_calls,
                                  !.sample_calls = gm.sample_calls]
        ELSE [generic_plot(gm.ret, title, kr) EXCEPT
                 !.score_calls = gm.score_calls, !.sample_calls = gm.sample_calls]

(* Variant: the elbow plot is drawn from the silhouette scores. *)
plot_elbow_wrong_metric(kr, ms, d) ==
    metric_plot("silhouette_score", "Within-cluster-sum of squared errors", kr, ms, d)

plot_elbow(kr, ms, d) ==
    metric_plot("wss", "Within-cluster-sum of squared errors", kr, ms, d)

plot_avg_silhouette_scores(kr, ms, d) ==
    metric_plot("silhouette_score", "Average silhouette score", kr, ms, d)

---------------------------------------------------------------------------
(* plot_silhouette_scores. *)

(* sample_silhouette_values[cluster_labels == i], sorted. *)
ClusterValues(values, labels, i) ==
    LET pairs == [j \in 1..Len(values) |-> <<labels[j], values[j]>>]
        sel == SelectSeq(pairs, LAMBDA p : p[1] = i)
    IN  SortSeq([j \in 1..Len(sel) |-> sel[j][2]], LAMBDA a, b : a < b)

(* The inner loop over the clusters 0..k-1: the band of cluster i is
   [y_lower, y_upper), its label is drawn at y_lower + 0.5 * size (kept
   doubled here), and the next band starts BandGap above. *)
(* Variant: the next band starts where the previous one ends. *)
RECURSIVE cluster_bands_no_gap(_, _, _, _, _)
cluster_bands_no_gap(k, values, labels, i, y_lower) ==
    IF i >= k THEN <<>>
    ELSE LET ith == ClusterValues(values, labels, i)
             size_cluster_i == Len(ith)
             y_upper == y_lower + size_cluster_i
         IN  <<[cluster |-> i, y_lower |-> y_lower, y_upper |-> y_upper,
                text_y2 |-> 2 * y_lower + size_cluster_i, values |-> ith]>>
             \o cluster_bands_no_gap(k, values, labels, i + 1, y_upper)

RECURSIVE cluster_bands(_, _, _, _, _)
cluster_bands(k, values, labels, i, y_lower) ==
    IF i >= k THEN <<>>
    ELSE LET ith == ClusterValues(values, labels, i)
             size_cluster_i == Len(ith)
             y_upper == y_lower + size_cluster_i
         IN  <<[cluster |-> i, y_lower |-> y_lower, y_upper |-> y_upper,
                text_y2 |-> 2 * y_lower + size_cluster_i, values |-> ith]>>
             \o cluster_bands(k, values, labels, i + 1, y_upper + BandGap)

(* The figure of one iteration of the outer loop. *)
silhouette_figure(k, m, d) ==
    [kind |-> "silhouette", k |-> k,
     xlim |-> <<-1, 1>>,
     ylim |-> <<0, Len(d) + (k + 1) * YLimPad>>,
     bands |-> cluster_bands(k, silhouette_samples(d, m.labels_), m.labels_, 0, FirstBand),
     axvline |-> silhouette_score(d, m.labels_),
     title |-> <<"Silhouette plot for the various clusters for k = ", k>>]

(* The figure left behind when the lookup of line 144 fails: subplots and
   the two axis limits have been done. *)
blank_figure(k, d) ==
    [kind |-> "blank", k |-> k, xlim |-> <<-1, 1>>,
     ylim |-> <<0, Len(d) + (k + 1) * YLimPad>>]

(* Variant: show is called inside the loop, once per figure. *)
RECURSIVE silhouette_loop_show_each(_, _, _, _, _)
silhouette_loop_show_each(kr, ms, d, i, acc) ==
    IF i > Len(kr) THEN acc
    ELSE IF kr[i] \notin DOMAIN ms
    THEN [acc EXCEPT !.new_figs = Append(@, blank_figure(kr[i], d)),
                     !.events = Append(@, "subplots"),
                     !.err = "KeyError"]
    ELSE silhouette_loop_show_each(kr, ms, d, i + 1,
            [acc EXCEPT !.new_figs = Append(@, silhouette_figure(kr[i], ms[kr[i]], d)),
                        !.events = @ \o <<"subplots", "show">>,
                        !.score_calls = @ + 1,
                        !.sample_calls = @ + 1])

RECURSIVE silhouette_loop(_, _, _, _, _)
silhouette_loop(kr, ms, d, i, acc) ==
    IF i > Len(kr) THEN [acc EXCEPT !.events = Append(@, "show")]
    ELSE IF kr[i] \notin DOMAIN ms
    THEN [acc EXCEPT !.new_figs = Append(@, blank_figure(kr[i], d)),
                     !.events = Append(@, "subplots"),
                     !.err = "KeyError"]
    ELSE silhouette_loop(kr, ms, d, i + 1,
            [acc EXCEPT !.new_figs = Append(@, silhouette_figure(kr[i], ms[kr[i]], d)),
                        !.events = Append(@, "subplots"),
                        !.score_calls = @ + 1,
                        !.sample_calls = @ + 1])

plot_silhouette_scores(kr, ms, d) == silhouette_loop(kr, ms, d, 1, NoPlotEffect)

---------------------------------------------------------------------------
(* The state machine. *)

NoCall == [op |-> "none", metric |-> "", ret |-> <<>>, err |-> "none",
           printed |-> 0, score_calls |-> 0, sample_calls |-> 0,
           figs_before |-> 0, figs_after |-> 0, events |-> <<>>, plotted |-> <<>>]

Init ==
    /\ data \in Datasets
    /\ k_range \in KRanges
    /\ kwargs \in Kwargs
    /\ constructed = FALSE
    /\ models = <<>>
    /\ fits = 0
    /\ figs = <<>>
    /\ calls = 0
    /\ returned = [m \in Metrics |-> <<>>]
    /\ last = NoCall
    /\ reference = [done |-> FALSE, wss |-> <<>>]

(* KMeansEvaluator(data, k_range, **kwargs). *)
Construct ==
    /\ ~constructed
    /\ \E rs \in [1..Len(k_range) -> 1..MaxSeed] :
          /\ \A i \in 1..Len(k_range) : rs[i] \in RngStates(kwargs)
          /\ models' = fit_models(k_range, kwargs, data, rs)
    /\ fits' = fits + Len(k_range)
    /\ constructed' = TRUE
    /\ last' = [NoCall EXCEPT !.op = "__init__", !.figs_before = Len(figs),
                              !.figs_after = Len(figs)]
    /\ UNCHANGED <<data, k_range, kwargs, figs, calls, returned, reference>>

(* Variant: get_metrics fits the models again. *)
GetMetrics_refit ==
    /\ constructed
    /\ calls < MaxCalls
    /\ \E metric \in Metrics :
          LET gm == get_metrics(metric, k_range, models, data)
          IN  /\ last' = [NoCall EXCEPT !.op = "get_metrics", !.metric = metric,
                             !.ret = gm.ret, !.err = gm.err, !.printed = gm.printed,
                             !.score_calls = gm.score_calls,
                             !.sample_calls = gm.sample_calls,
                             !.figs_before = Len(figs), !.figs_after = Len(figs)]
              /\ returned' = IF gm.err = "none"
                             THEN [returned EXCEPT ![metric] = Append(@, gm.ret)]
                             ELSE returned
    /\ calls' = calls + 1
    /\ fits' = fits + Len(k_range)
    /\ UNCHANGED <<data, k_range, kwargs, constructed, models, figs, reference>>

(* kme.get_metrics(metric). *)
GetMetrics ==
    /\ constructed
    /\ calls < MaxCalls
    /\ \E metric \in Metrics :
          LET gm == get_metrics(metric, k_range, models, data)
          IN  /\ last' = [NoCall EXCEPT !.op = "get_metrics", !.metric = metric,
                             !.ret = gm.ret, !.err = gm.err, !.printed = gm.printed,
                             !.score_calls = gm.score_calls,
                             !.sample_calls = gm.sample_calls,
                             !.figs_before = Len(figs), !.figs_after = Len(figs)]
              /\ returned' = IF gm.err = "none"
                             THEN [returned EXCEPT ![metric] = Append(@, gm.ret)]
                             ELSE returned
    /\ calls' = calls + 1
    /\ UNCHANGED <<data, k_range, kwargs, constructed, models, fits, figs, reference>>

(* What a plot method leaves behind. *)
ApplyPlot(op, eff) ==
    /\ figs' = figs \o eff.new_figs
    /\ last' = [NoCall EXCEPT !.op = op, !.err = eff.err,
                   !.score_calls = eff.score_calls, !.sample_calls = eff.sample_calls,
                   !.figs_before = Len(figs),
                   !.figs_after = Len(figs) + Len(eff.new_figs),
                   !.events = eff.events, !.plotted = eff.plotted]
    /\ calls' = calls + 1
    /\ UNCHANGED <<data, k_range, kwargs, constructed, models, fits, returned,
                   reference>>

(* kme.plot_elbow(). *)
PlotElbow ==
    /\ constructed
    /\ calls < MaxCalls
    /\ ApplyPlot("plot_elbow", plot_elbow(k_range, models, data))

(* kme.plot_avg_silhouette_scores(). *)
PlotAvgSilhouetteScores ==
    /\ constructed
    /\ calls < MaxCalls
    /\ ApplyPlot("plot_avg_silhouette_scores",
                 plot_avg_silhouette_scores(k_range, models, data))

(* kme.plot_silhouette_scores(). *)
PlotSilhouetteScores ==
    /\ constructed
    /\ calls < MaxCalls
    /\ ApplyPlot("plot_silhouette_scores",
                 plot_silhouette_scores(k_range, models, data))

(* plt.close(): the tests close the current figure before they plot. *)
Close ==
    /\ calls < MaxCalls
    /\ figs # <<>>
    /\ figs' = SubSeq(figs, 1, Len(figs) - 1)
    /\ last' = [NoCall EXCEPT !.op = "close", !.figs_before = Len(figs),
                              !.figs_after = Len(figs) - 1]
    /\ calls' = calls + 1
    /\ UNCHANGED <<data, k_range, kwargs, constructed, models, fits, returned,
                   reference>>

(* The loop test_get_metrics compares against: for k in k_range, a fresh
   KMeans(n_clusters=k, **kwargs) fitted on the same data, its inertia_. *)
ReferenceLoop ==
    /\ ~reference.done
    /\ \E rs \in [1..Len(k_range) -> 1..MaxSeed] :
          /\ \A i \in 1..Len(k_range) : rs[i] \in RngStates(kwargs)
          /\ reference' = [done |-> TRUE,
                           wss |-> [i \in 1..Len(k_range) |->
                                      FittedModel(k_range[i], kwargs, data, rs[i]).inertia_]]
    /\ UNCHANGED <<data, k_range, kwargs, constructed, models, fits, figs, calls,
                   returned, last>>

Next ==
    \/ Construct
    \/ GetMetrics
    \/ PlotElbow
    \/ PlotAvgSilhouetteScores
    \/ PlotSilhouetteScores
    \/ Close

Spec == Init /\ [][Next]_vars

NextRef ==
    \/ Construct
    \/ GetMetrics
    \/ ReferenceLoop

SpecRef == Init /\ [][NextRef]_vars

(* A constructed evaluator for one candidate k whose model carries any
   assignment of the samples to the labels 0..k-1. *)
InitLayout ==
    /\ data \in Datasets
    /\ kwargs = NoKwargs
    /\ \E k \in KValues :
          /\ k_range = <<k>>
          /\ \E labels \in [1..Len(data) -> 0..(k - 1)] :
                models = DictUpdate(<<>>, k, ModelWith(k, kwargs, data, labels))
    /\ constructed = TRUE
    /\ fits = 1
    /\ figs = <<>>
    /\ calls = 0
    /\ returned = [m \in Metrics |-> <<>>]
    /\ last = [NoCall EXCEPT !.op = "__init__"]
    /\ reference = [done |-> FALSE, wss |-> <<>>]

NextLayout ==
    \/ PlotSilhouetteScores
    \/ Close

SpecLayout == InitLayout /\ [][NextLayout]_vars

---------------------------------------------------------------------------
(* The claims. *)

IsGetMetrics(metric) == last.op = "get_metrics" /\ last.metric = metric

(* C1, as stated: after construction the cache holds as many models as
   k_range has candidates, its keys are the values of k_range, and the model
   under k has n_clusters = k and was fitted on the constructor's data. *)
C1_CountEqualsLength ==
    constructed =>
        /\ Cardinality(DOMAIN models) = Len(k_range)
        /\ DOMAIN models = Range(k_range)
        /\ \A k \in DOMAIN models :
              models[k].n_clusters = k /\ models[k].fit_data = data

(* C1, amended: after construction the cache holds one model per distinct
   value of k_range (its key set is the set of values of k_range, so it has as
   many models as k_range has distinct values), the model under k has
   n_clusters = k and the constructor's keyword arguments and was fitted on
   the constructor's data, and one fit was run per element of k_range. *)
C1_OneModelPerDistinctK ==
    constructed =>
        /\ DOMAIN models = Range(k_range)
        /\ Cardinality(DOMAIN models) = Cardinality(Range(k_range))
        /\ Cardinality(DOMAIN models) <= Len(k_range)
        /\ \A k \in DOMAIN models :
              /\ models[k].n_clusters = k
              /\ models[k].fit_data = data
              /\ models[k].kwargs = kwargs
        /\ fits = Len(k_range)

C1_Witness ==
    /\ constructed
    /\ Len(k_range) = 2
    /\ k_range[1] = k_range[2]
    /\ Cardinality(DOMAIN models) = 1

(* C2: once the evaluator is constructed no step refits: every call leaves
   _models, _data, _k_range and the number of fits as they were, and the
   number of fits is the number the constructor ran. *)
C2_NeverRefit ==
    [][constructed =>
          /\ models' = models
          /\ data' = data
          /\ k_range' = k_range
          /\ fits' = fits
          /\ fits = Len(k_range)]_vars

C2_Witness ==
    /\ constructed
    /\ calls = MaxCalls
    /\ last.op = "get_metrics"
    /\ last.figs_before > 0
    /\ fits = 2

(* C3, as stated: get_metrics('wss') returns what the reference loop returns
   for the same k_range, keyword arguments and data. *)
C3_EqualsReferenceLoop ==
    (reference.done /\ IsGetMetrics("wss") /\ last.err = "none") =>
        last.ret = reference.wss

(* C3, amended: element i of get_metrics('wss') is the inertia of the cached
   model of the i-th k of k_range; the list equals the reference loop's list
   when the keyword arguments fix random_state. *)
C3_CachedInertia ==
    IsGetMetrics("wss") =>
        /\ last.err = "none"
        /\ Len(last.ret) = Len(k_range)
        /\ \A i \in 1..Len(k_range) : last.ret[i] = models[k_range[i]].inertia_
        /\ (reference.done /\ kwargs # NoKwargs) => last.ret = reference.wss

C3_Witness ==
    /\ IsGetMetrics("wss")
    /\ reference.done
    /\ kwargs # NoKwargs
    /\ Len(k_range) = 2
    /\ last.ret[1] # last.ret[2]
    /\ last.ret = reference.wss

CallOps == {"get_metrics", "plot_elbow", "plot_avg_silhouette_scores",
            "plot_silhouette_scores"}

(* C4, as stated: the three metrics are computed once per candidate k during
   construction, and no later get_metrics or plot call has the library compute
   a silhouette score or per-sample silhouette values. *)
C4_Precomputed ==
    /\ last.op = "__init__" =>
          last.score_calls = Len(k_range) /\ last.sample_calls = Len(k_range)
    /\ last.op \in CallOps =>
          last.score_calls = 0 /\ last.sample_calls = 0

(* C4, amended: only the inertia is computed during construction (by the
   fit) and read from the cached model afterwards.  The constructor computes
   no silhouette value; get_metrics('silhouette_score') and
   plot_avg_silhouette_scores call silhouette_score once per element of
   k_range, get_metrics('silhouette_sample') calls silhouette_samples once per
   element, plot_silhouette_scores calls both once per element, and
   get_metrics with 'wss' or an unknown metric and plot_elbow call neither. *)
C4_OnlyInertiaPrecomputed ==
    LET n == Len(k_range)
        lib == <<last.score_calls, last.sample_calls>>
    IN  /\ last.op = "__init__" => lib = <<0, 0>> /\ fits = n
        /\ IsGetMetrics("wss") =>
              /\ lib = <<0, 0>>
              /\ last.ret = [i \in 1..n |-> models[k_range[i]].inertia_]
        /\ IsGetMetrics("bogus") => lib = <<0, 0>>
        /\ IsGetMetrics("silhouette_score") => lib = <<n, 0>>
        /\ IsGetMetrics("silhouette_sample") => lib = <<0, n>>
        /\ last.op = "plot_elbow" => lib = <<0, 0>>
        /\ last.op = "plot_avg_silhouette_scores" => lib = <<n, 0>>
        /\ last.op = "plot_silhouette_scores" => lib = <<n, n>>
        /\ constructed => fits = n

C4_Witness ==
    /\ IsGetMetrics("silhouette_score")
    /\ calls = 2
    /\ Len(returned["silhouette_score"]) = 2
    /\ last.score_calls = 2

(* C5: plot_silhouette_scores creates one figure per element of k_range, in
   k_range order, so that from no open figures the current figure's number
   is the number of candidates, and show is called once, after the last
   figure. *)
C5_OneFigurePerK ==
    last.op = "plot_silhouette_scores" =>
        LET n == Len(k_range) IN
        /\ last.err = "none"
        /\ last.figs_after = last.figs_before + n
        /\ Len(figs) = last.figs_after
        /\ last.figs_before = 0 => Len(figs) = n
        /\ \A i \in 1..n :
              /\ figs[last.figs_before + i].kind = "silhouette"
              /\ figs[last.figs_before + i].k = k_range[i]
        /\ last.events = [i \in 1..(n + 1) |-> IF i <= n THEN "subplots" ELSE "show"]

C5_Witness ==
    /\ last.op = "plot_silhouette_scores"
    /\ last.figs_before = 0
    /\ Len(k_range) = 2
    /\ k_range[1] > k_range[2]
    /\ Len(figs) = 2

(* C6: plot_elbow and plot_avg_silhouette_scores each create one figure per
   call, so that from no open figures the current figure's number is 1;
   plot_elbow plots the inertia of each candidate's cached model against
   k_range and plot_avg_silhouette_scores the silhouette score of each
   candidate's cached labels. *)
C6_OneFigurePerCall ==
    LET n == Len(k_range) IN
    /\ last.op \in {"plot_elbow", "plot_avg_silhouette_scores"} =>
          /\ last.figs_after = last.figs_before + 1
          /\ Len(figs) = last.figs_after
          /\ last.figs_before = 0 => Len(figs) = 1
          /\ figs[Len(figs)].kind = "generic"
          /\ figs[Len(figs)].x = k_range
          /\ figs[Len(figs)].y = last.plotted[2]
          /\ last.plotted[1] = k_range
    /\ last.op = "plot_elbow" =>
          last.plotted[2] = [i \in 1..n |-> models[k_range[i]].inertia_]
    /\ last.op = "plot_avg_silhouette_scores" =>
          last.plotted[2] =
              [i \in 1..n |-> silhouette_score(data, models[k_range[i]].labels_)]

C6_Witness ==
    /\ last.op = "plot_elbow"
    /\ last.figs_before = 0
    /\ Len(figs) = 1
    /\ Len(k_range) = 2
    /\ figs[1].y[1] # figs[1].y[2]
    /\ last.events = <<"figure", "plot", "show">>

(* C7: get_metrics with an unknown metric does not fail, returns the list
   get_metrics('wss') returns, and prints the notice exactly once. *)
C7_NoticeOncePerCall ==
    IsGetMetrics("bogus") =>
        /\ last.err = "none"
        /\ last.ret = get_metrics("wss", k_range, models, data).ret
        /\ last.printed = 1

(* C8: get_metrics returns one entry per element of k_range, in order, the
   entry at position i taken from the cached model of the i-th k (its inertia,
   the silhouette score of its labels or the per-sample silhouette values of
   its labels; its inertia for an unknown metric), and all the lists returned
   for one metric are equal. *)
C8_OneEntryPerK ==
    /\ last.op = "get_metrics" =>
          /\ last.err = "none"
          /\ Len(last.ret) = Len(k_range)
          /\ \A i \in 1..Len(k_range) :
                LET m == models[k_range[i]] IN
                last.ret[i] =
                    CASE last.metric = "wss" -> m.inertia_
                      [] last.metric = "silhouette_score" ->
                            silhouette_score(data, m.labels_)
                      [] last.metric = "silhouette_sample" ->
                            silhouette_samples(data, m.labels_)
                      [] OTHER -> m.inertia_
    /\ \A metric \in Metrics :
          \A i, j \in 1..Len(returned[metric]) :
              returned[metric][i] = returned[metric][j]

C8_Witness ==
    /\ IsGetMetrics("silhouette_sample")
    /\ Len(returned["silhouette_sample"]) = 2
    /\ Len(k_range) = 2
    /\ last.ret[1] # last.ret[2]

(* C9: in every silhouette figure the band of cluster 0 starts at y = 10, the
   band of cluster i is as tall as the number of samples labelled i, the next
   band starts exactly 10 above, and the top of the last band is n + 10 * k,
   within the y-limits [0, n + (k + 1) * 10]. *)
C9_BandsLayout ==
    \A f \in 1..Len(figs) :
        figs[f].kind = "silhouette" =>
            LET k == figs[f].k
                b == figs[f].bands
                labels == models[k].labels_
                n == Len(data)
            IN  /\ Len(b) = k
                /\ b[1].y_lower = 10
                /\ \A i \in 1..k :
                      /\ b[i].cluster = i - 1
                      /\ b[i].y_upper - b[i].y_lower =
                            Cardinality({j \in 1..n : labels[j] = i - 1})
                /\ \A i \in 1..(k - 1) : b[i + 1].y_lower = b[i].y_upper + 10
                /\ b[k].y_upper = n + 10 * k
                /\ figs[f].ylim = <<0, n + (k + 1) * 10>>
                /\ b[k].y_upper <= figs[f].ylim[2]

C9_Witness ==
    \E f \in 1..Len(figs) :
        /\ figs[f].kind = "silhouette"
        /\ figs[f].k = 3
        /\ figs[f].bands[2].y_upper = figs[f].bands[2].y_lower
        /\ figs[f].bands[3].y_upper = figs[f].bands[3].y_lower + 2

(* C10: every k of _k_range has an entry in _models, so no lookup made by
   get_metrics or a plot method fails, however many calls came before. *)
C10_LookupsNeverMiss ==
    constructed =>
        /\ \A i \in 1..Len(k_range) : k_range[i] \in DOMAIN models
        /\ last.err # "KeyError"

C10_Witness ==
    /\ constructed
    /\ calls = 2
    /\ last.op = "plot_silhouette_scores"
    /\ last.figs_before = 1
    /\ Len(k_range) = 2
    /\ k_range[1] # k_range[2]

=============================================================================
